---- MODULE Spec2Model ----
(***************************************************************************)
(* SecureScope (easy-vuln-scanner): the SecurityScanner component, its     *)
(* URL validator, the simulated scan and the bounded scan history.         *)
(*                                                                         *)
(* Strings are sequences of one-character strings, so that startsWith and  *)
(* the URL parser work on the characters of the text.                      *)
(***************************************************************************)
EXTENDS Integers, Sequences, FiniteSets, TLC

VARIABLES
    url,            \* useState(''): the text of the URL input
    isScanning,     \* useState(false): the in-progress flag
    progress,       \* useState(0): the progress value, in sixths of a percent
    currentResult,  \* useState(null): <<>> for null, <<r>> for a ScanResult
    scanHistory,    \* useState([]): the History list, newest first
    activeTab,      \* useState('scanner')
    pc,             \* where the running handleScan is suspended
    stepIndex,      \* the loop variable i of simulateScan
    scanUrl,        \* the url captured by the closure of the running scan
    scanResult,     \* the value simulateScan's promise resolved with
    lastToast,      \* the notification most recently passed to toast()
    now,            \* Date.now(), in units of one scan
    rng             \* the state of the generator behind Math.random()

vars == <<url, isScanning, progress, currentResult, scanHistory, activeTab,
          pc, stepIndex, scanUrl, scanResult, lastToast, now, rng>>

(***************************************************************************)
(* Bounds of the model.                                                    *)
(***************************************************************************)
\* number of scans that may complete in one behaviour
MaxScans == 11
\* modulus of the pseudo-random generator behind Math.random()
RngMod == 4
\* length of the Histories the summaries are checked on
MaxAggLen == 3
\* number of vulnerabilities of the results ScanResults is checked on
MaxViewVulns == 2

(***************************************************************************)
(* Text.                                                                   *)
(***************************************************************************)
UpperAlpha == <<"A","B","C","D","E","F","G","H","I","J","K","L","M",
                "N","O","P","Q","R","S","T","U","V","W","X","Y","Z">>
LowerAlpha == <<"a","b","c","d","e","f","g","h","i","j","k","l","m",
                "n","o","p","q","r","s","t","u","v","w","x","y","z">>
Digits == {"0","1","2","3","4","5","6","7","8","9"}

Range(f) == {f[i] : i \in DOMAIN f}

IsAlpha(c) == c \in Range(UpperAlpha) \cup Range(LowerAlpha)

\* ASCII lowercase of one character
ToLower(c) ==
    IF c \in Range(UpperAlpha)
    THEN LowerAlpha[CHOOSE i \in DOMAIN UpperAlpha : UpperAlpha[i] = c]
    ELSE c

LowerStr(s) == [i \in DOMAIN s |-> ToLower(s[i])]

\* the text of s from position i to its end
From(s, i) == SubSeq(s, i, Len(s))

\* String.prototype.startsWith
startsWith(s, p) ==
    /\ Len(p) <= Len(s)
    /\ \A i \in 1..Len(p) : s[i] = p[i]

\* position of the first character of s that is in set cs, Len(s)+1 if none
FirstOf(s, cs) ==
    IF \E i \in 1..Len(s) : s[i] \in cs
    THEN CHOOSE i \in 1..Len(s) : s[i] \in cs /\ \A j \in 1..(i-1) : s[j] \notin cs
    ELSE Len(s) + 1

\* position of the last character of s that is in set cs, 0 if none
LastOf(s, cs) ==
    IF \E i \in 1..Len(s) : s[i] \in cs
    THEN CHOOSE i \in 1..Len(s) : s[i] \in cs /\ \A j \in (i+1)..Len(s) : s[j] \notin cs
    ELSE 0

HTTP_PREFIX == <<"h","t","t","p",":","/","/">>
HTTPS_PREFIX == <<"h","t","t","p","s",":","/","/">>

(***************************************************************************)
(* new URL(text) with no base: the URL parser of the platform, for the     *)
(* characters the inputs are made of.  The result has ok = FALSE where the *)
(* constructor throws a TypeError.                                         *)
(***************************************************************************)
Failure == [ok |-> FALSE, scheme |-> <<>>, hostname |-> <<>>]

\* leading and trailing C0 control or space are removed
TrimStart(s) ==
    IF \A i \in 1..Len(s) : s[i] = " " THEN <<>>
    ELSE From(s, FirstOf(s, Range(s) \ {" "}))

TrimEnd(s) ==
    IF \A i \in 1..Len(s) : s[i] = " " THEN <<>>
    ELSE SubSeq(s, 1, LastOf(s, Range(s) \ {" "}))

Trim(s) == TrimEnd(TrimStart(s))

\* scheme start state and scheme state: the position of the ":" that ends
\* the scheme, 0 when the text has no scheme
SchemeEnd(s) ==
    LET c == FirstOf(s, {":"})
    IN IF /\ c <= Len(s)
          /\ c > 1
          /\ IsAlpha(s[1])
          /\ \A i \in 2..(c-1) : IsAlpha(s[i]) \/ s[i] \in Digits \cup {"+", "-", "."}
       THEN c ELSE 0

SpecialSchemes ==
    { <<"h","t","t","p">>, <<"h","t","t","p","s">>, <<"f","t","p">>,
      <<"w","s">>, <<"w","s","s">> }

ForbiddenHostCodePoints ==
    {" ", "#", "/", ":", "<", ">", "?", "@", "[", "\\", "]", "^", "|", "%"}

\* the text after the slashes that the special-authority states skip
SkipSlashes(s) ==
    IF \A i \in 1..Len(s) : s[i] \in {"/", "\\"} THEN <<>>
    ELSE From(s, FirstOf(s, Range(s) \ {"/", "\\"}))

\* authority state, host state and port state
ParseAuthority(scheme, rest, special) ==
    LET stop == IF special THEN {"/", "\\", "?", "#"} ELSE {"/", "?", "#"}
        auth == SubSeq(rest, 1, FirstOf(rest, stop) - 1)
        at   == LastOf(auth, {"@"})
        hp   == From(auth, at + 1)
        col  == FirstOf(hp, {":"})
        host == SubSeq(hp, 1, col - 1)
        port == From(hp, col + 1)
    IN IF \/ (host = <<>> /\ (special \/ at > 0 \/ col <= Len(hp)))
          \/ \E i \in 1..Len(host) : host[i] \in ForbiddenHostCodePoints
          \/ \E i \in 1..Len(port) : port[i] \notin Digits
       THEN Failure
       ELSE [ok |-> TRUE, scheme |-> scheme,
             hostname |-> IF special THEN LowerStr(host) ELSE host]

ParseURL(text) ==
    LET s == Trim(text)
        c == SchemeEnd(s)
    IN IF c = 0 THEN Failure
       ELSE LET scheme == LowerStr(SubSeq(s, 1, c - 1))
                rest   == From(s, c + 1)
            IN IF scheme \in SpecialSchemes
               THEN ParseAuthority(scheme, SkipSlashes(rest), TRUE)
               ELSE IF startsWith(rest, <<"/", "/">>)
                    THEN ParseAuthority(scheme, From(rest, 3), FALSE)
                    ELSE [ok |-> TRUE, scheme |-> scheme, hostname |-> <<>>]
\* validateUrl without the prefix test
validateUrl_NoPrefix(text) ==
    IF ParseURL(text).ok THEN TRUE ELSE FALSE

\* validateUrl: try { new URL(url); return startsWith... } catch { return false }
validateUrl(text) ==
    IF ParseURL(text).ok
    THEN startsWith(text, HTTP_PREFIX) \/ startsWith(text, HTTPS_PREFIX)
    ELSE FALSE

(***************************************************************************)
(* Data of the scanner.                                                    *)
(***************************************************************************)
MOCK_VULNERABILITIES ==
    << [id |-> "1", type |-> "SSL/TLS", severity |-> "medium"],
       [id |-> "2", type |-> "Headers", severity |-> "high"],
       [id |-> "3", type |-> "XSS",     severity |-> "critical"] >>

steps ==
    << "Checking SSL certificate...",
       "Analyzing security headers...",
       "Testing for XSS vulnerabilities...",
       "Scanning for SQL injection...",
       "Checking open ports...",
       "Generating report..." >>

Min(a, b) == IF a < b THEN a ELSE b
Max(a, b) == IF a > b THEN a ELSE b

\* Array.prototype.slice(a, b) for 0 <= a <= b
slice(s, a, b) == SubSeq(s, a + 1, Min(b, Len(s)))

\* Array.prototype.some(v => v.severity === sev)
someSeverity(vs, sev) == \E i \in 1..Len(vs) : vs[i].severity = sev
\* the draw without the + 1
numVulnsOf_NoPlusOne(r) == (r * 4) \div RngMod

\* Math.floor(Math.random() * 4) + 1, Math.random() being r / RngMod
numVulnsOf(r) == ((r * 4) \div RngMod) + 1

\* the generator's next state
NextRng(r) == (r + 1) % RngMod

selectedVulnsOf(r) == slice(MOCK_VULNERABILITIES, 0, numVulnsOf(r))

overallScoreOf(selectedVulns) == Max(10, 100 - (Len(selectedVulns) * 15))

\* the record simulateScan returns
NewScanResult(r, t, u) ==
    [id |-> t, url |-> u, timestamp |-> t,
     overallScore |-> overallScoreOf(selectedVulnsOf(r)),
     vulnerabilities |-> selectedVulnsOf(r)]

\* the progress computed from i instead of i + 1
progressAfter_Index(i) == (i * 100 * 6) \div Len(steps)

\* setProgress(((i + 1) / steps.length) * 100), in sixths of a percent
progressAfter(i) == ((i + 1) * 100 * 6) \div Len(steps)

Toast(t, d, n, v) == [title |-> t, description |-> d, found |-> n, variant |-> v]

NoToast == Toast("", "", 0, "default")

InvalidUrlToast ==
    Toast("Invalid URL", "Please enter a valid HTTP or HTTPS URL.", 0, "destructive")

StepToast(i) == Toast("Scanning...", steps[i + 1], 0, "default")

\* the variant decided on the high severity
completeVariant_High(result) ==
    IF someSeverity(result.vulnerabilities, "high") THEN "destructive" ELSE "default"

\* result.vulnerabilities.some(v => v.severity === 'critical') ? ... : ...
completeVariant(result) ==
    IF someSeverity(result.vulnerabilities, "critical") THEN "destructive" ELSE "default"

CompleteToast(result) ==
    Toast("Scan Complete", "Found ${n} potential issues.",
          Len(result.vulnerabilities), completeVariant(result))

FailedToast ==
    Toast("Scan Failed", "An error occurred during the security scan.", 0, "destructive")

\* the history untrimmed
pushHistory_NoTrim(prev, result) == <<result>> \o prev

\* the trim dropping the newest of the previous entries
pushHistory_DropNewest(prev, result) == <<result>> \o slice(prev, 1, 10)

\* the new entry put last
pushHistory_Append(prev, result) == slice(prev, 0, 9) \o <<result>>

\* setScanHistory(prev => [result, ...prev.slice(0, 9)])
pushHistory(prev, result) == <<result>> \o slice(prev, 0, 9)

(***************************************************************************)
(* The texts the user types.                                               *)
(***************************************************************************)
Str_https_a == <<"h","t","t","p","s",":","/","/","a",".","c","o">>
Str_ftp_x   == <<"f","t","p",":","/","/","x",".","c","o","m">>
Str_not_url == <<"n","o","t"," ","a"," ","u","r","l">>

TypedUrls == {Str_https_a, Str_ftp_x, Str_not_url}

(***************************************************************************)
(* The component.                                                          *)
(***************************************************************************)
Init ==
    /\ url = <<>>
    /\ isScanning = FALSE
    /\ progress = 0
    /\ currentResult = <<>>
    /\ scanHistory = <<>>
    /\ activeTab = "scanner"
    /\ pc = "idle"
    /\ stepIndex = 0
    /\ scanUrl = <<>>
    /\ scanResult = <<>>
    /\ lastToast = NoToast
    /\ now = 1
    /\ rng \in 0..(RngMod - 1)

\* no event handler runs between the resolution of simulateScan's promise
\* and the continuation of handleScan (a microtask)
EventLoopFree == pc # "resolved"

\* onChange of the Input, which is disabled while scanning
SetUrl(text) ==
    /\ EventLoopFree
    /\ activeTab = "scanner"
    /\ ~isScanning
    /\ url' = text
    /\ UNCHANGED <<isScanning, progress, currentResult, scanHistory, activeTab,
                   pc, stepIndex, scanUrl, scanResult, lastToast, now, rng>>

\* the two navigation buttons
SetActiveTab(tab) ==
    /\ EventLoopFree
    /\ activeTab # tab
    /\ activeTab' = tab
    /\ UNCHANGED <<url, isScanning, progress, currentResult, scanHistory,
                   pc, stepIndex, scanUrl, scanResult, lastToast, now, rng>>

\* the Start Scan button without disabled={isScanning}
CanClickScan_NoBusyCheck ==
    /\ EventLoopFree
    /\ activeTab = "scanner"
    /\ url # <<>>

\* the Start Scan button is enabled
CanClickScan ==
    /\ EventLoopFree
    /\ activeTab = "scanner"
    /\ ~isScanning
    /\ url # <<>>

\* handleScan resetting the view before it validates
HandleScanInvalid_ResetFirst ==
    /\ CanClickScan
    /\ ~validateUrl(url)
    /\ progress' = 0
    /\ currentResult' = <<>>
    /\ lastToast' = InvalidUrlToast
    /\ UNCHANGED <<url, isScanning, scanHistory, activeTab,
                   pc, stepIndex, scanUrl, scanResult, now, rng>>

\* handleScan, the URL fails validation
HandleScanInvalid ==
    /\ CanClickScan
    /\ ~validateUrl(url)
    /\ lastToast' = InvalidUrlToast
    /\ UNCHANGED <<url, isScanning, progress, currentResult, scanHistory, activeTab,
                   pc, stepIndex, scanUrl, scanResult, now, rng>>

\* handleScan without the validation
HandleScanStart_NoValidate ==
    /\ CanClickScan
    /\ now <= MaxScans
    /\ isScanning' = TRUE
    /\ progress' = 0
    /\ currentResult' = <<>>
    /\ pc' = "timer"
    /\ stepIndex' = 0
    /\ scanUrl' = url
    /\ UNCHANGED <<url, scanHistory, activeTab, scanResult, lastToast, now, rng>>

\* handleScan up to the first await of simulateScan
HandleScanStart ==
    /\ CanClickScan
    /\ validateUrl(url)
    /\ now <= MaxScans
    /\ isScanning' = TRUE
    /\ progress' = 0
    /\ currentResult' = <<>>
    /\ pc' = "timer"
    /\ stepIndex' = 0
    /\ scanUrl' = url
    /\ UNCHANGED <<url, scanHistory, activeTab, scanResult, lastToast, now, rng>>

\* one timer of simulateScan fires: the body of the loop, and after the last
\* step the rest of simulateScan
Step ==
    /\ pc = "timer"
    /\ progress' = progressAfter(stepIndex)
    /\ lastToast' = StepToast(stepIndex)
    /\ stepIndex' = stepIndex + 1
    /\ IF stepIndex + 1 < Len(steps)
       THEN UNCHANGED <<pc, scanResult, rng>>
       ELSE /\ pc' = "resolved"
            /\ scanResult' = <<NewScanResult(rng, now, scanUrl)>>
            /\ rng' = NextRng(rng)
    /\ UNCHANGED <<url, isScanning, currentResult, scanHistory, activeTab,
                   scanUrl, now>>
\* handleScan clearing the flag in the catch block only
Complete_NoFinally ==
    /\ pc = "resolved"
    /\ currentResult' = scanResult
    /\ scanHistory' = pushHistory(scanHistory, scanResult[1])
    /\ lastToast' = CompleteToast(scanResult[1])
    /\ isScanning' = isScanning
    /\ pc' = "idle"
    /\ stepIndex' = 0
    /\ scanUrl' = <<>>
    /\ scanResult' = <<>>
    /\ now' = now + 1
    /\ UNCHANGED <<url, progress, activeTab, rng>>

\* handleScan after await simulateScan(): the try block and finally
Complete ==
    /\ pc = "resolved"
    /\ currentResult' = scanResult
    /\ scanHistory' = pushHistory(scanHistory, scanResult[1])
    /\ lastToast' = CompleteToast(scanResult[1])
    /\ isScanning' = FALSE
    /\ pc' = "idle"
    /\ stepIndex' = 0
    /\ scanUrl' = <<>>
    /\ scanResult' = <<>>
    /\ now' = now + 1
    /\ UNCHANGED <<url, progress, activeTab, rng>>
\* handleScan without the finally block
ScanFault_NoFinally(thrower) ==
    /\ pc = "timer"
    /\ progress' = IF thrower = "toast" THEN progressAfter(stepIndex) ELSE progress
    /\ lastToast' = FailedToast
    /\ pc' = "idle"
    /\ stepIndex' = 0
    /\ scanUrl' = <<>>
    /\ UNCHANGED <<url, isScanning, currentResult, scanHistory, activeTab,
                   scanResult, now, rng>>

\* a fault raised in the loop body of simulateScan, by setProgress or by
\* toast: the catch block and finally of handleScan
ScanFault(thrower) ==
    /\ pc = "timer"
    /\ progress' = IF thrower = "toast" THEN progressAfter(stepIndex) ELSE progress
    /\ lastToast' = FailedToast
    /\ isScanning' = FALSE
    /\ pc' = "idle"
    /\ stepIndex' = 0
    /\ scanUrl' = <<>>
    /\ UNCHANGED <<url, currentResult, scanHistory, activeTab, scanResult, now, rng>>

\* a View button that also moves the row to the front of History
SelectScan_Bump(i) ==
    /\ EventLoopFree
    /\ activeTab = "history"
    /\ i \in 1..Len(scanHistory)
    /\ currentResult' = <<scanHistory[i]>>
    /\ scanHistory' = <<scanHistory[i]>> \o SubSeq(scanHistory, 1, i - 1)
                         \o SubSeq(scanHistory, i + 1, Len(scanHistory))
    /\ UNCHANGED <<url, isScanning, progress, activeTab,
                   pc, stepIndex, scanUrl, scanResult, lastToast, now, rng>>

\* the View button of a History row: onSelectScan = setCurrentResult
SelectScan(i) ==
    /\ EventLoopFree
    /\ activeTab = "history"
    /\ i \in 1..Len(scanHistory)
    /\ currentResult' = <<scanHistory[i]>>
    /\ UNCHANGED <<url, isScanning, progress, scanHistory, activeTab,
                   pc, stepIndex, scanUrl, scanResult, lastToast, now, rng>>

\* a clear that keeps the newest entry
ClearHistory_KeepNewest ==
    /\ EventLoopFree
    /\ activeTab = "history"
    /\ Len(scanHistory) > 0
    /\ scanHistory' = <<scanHistory[1]>>
    /\ UNCHANGED <<url, isScanning, progress, currentResult, activeTab,
                   pc, stepIndex, scanUrl, scanResult, lastToast, now, rng>>

\* the Clear History button: onClearHistory = () => setScanHistory([])
ClearHistory ==
    /\ EventLoopFree
    /\ activeTab = "history"
    /\ Len(scanHistory) > 0
    /\ scanHistory' = <<>>
    /\ UNCHANGED <<url, isScanning, progress, currentResult, activeTab,
                   pc, stepIndex, scanUrl, scanResult, lastToast, now, rng>>

Next ==
    \/ \E text \in TypedUrls : SetUrl(text)
    \/ \E tab \in {"scanner", "history"} : SetActiveTab(tab)
    \/ HandleScanInvalid
    \/ HandleScanStart
    \/ Step
    \/ Complete
    \/ \E thrower \in {"setProgress", "toast"} : ScanFault(thrower)
    \/ \E i \in 1..Len(scanHistory) : SelectScan(i)
    \/ ClearHistory

Spec == Init /\ [][Next]_vars

TypeOK ==
    /\ isScanning \in BOOLEAN
    /\ pc \in {"idle", "timer", "resolved"}
    /\ (pc = "idle") = ~isScanning
    /\ Len(currentResult) <= 1
    /\ Len(scanResult) <= 1

(***************************************************************************)
(* The validator on its own: the user types any of UrlInputs and clicks    *)
(* Start Scan.                                                             *)
(***************************************************************************)
Str_example == <<"h","t","t","p","s",":","/","/","e","x","a","m","p","l","e",".","c","o","m">>

Leads == { <<>>, <<" ">> }

Schemes == { <<"h","t","t","p">>, <<"h","t","t","p","s">>, <<"f","t","p">>,
             <<"H","T","T","P">>, <<"m","a","i","l","t","o">>, <<>> }

Separators == { <<":","/","/">>, <<":">>, <<":","/">>, <<":","/","/","/">>, <<>> }

Rests == { <<"a",".","b">>, <<"a",".","b","/","x">>, <<"a"," ","b">>, <<>> }

UrlInputs ==
    { l \o sc \o sep \o r : l \in Leads, sc \in Schemes, sep \in Separators, r \in Rests }
        \cup {Str_example, Str_ftp_x, Str_not_url}

UrlNext ==
    \/ \E text \in UrlInputs : SetUrl(text)
    \/ HandleScanInvalid
    \/ HandleScanStart

UrlSpec == Init /\ [][UrlNext]_vars

(***************************************************************************)
(* The scanner with its timers running: a timer that is set fires, and the *)
(* continuation of a resolved promise runs.                                *)
(***************************************************************************)
LiveSpec == Spec /\ WF_vars(Step) /\ WF_vars(Complete)

(***************************************************************************)
(* What the two summaries render from History.                             *)
(***************************************************************************)
\* vulnerabilities.filter(v => v.severity === sev).length
severityCount(vs, sev) == Len(SelectSeq(vs, LAMBDA v : v.severity = sev))

\* history.reduce((acc, scan) => acc + scan.vulnerabilities.filter(...).length, 0)
RECURSIVE reduceSeverity(_, _, _)
reduceSeverity(history, sev, acc) ==
    IF history = <<>> THEN acc
    ELSE reduceSeverity(Tail(history), sev,
                        acc + severityCount(Head(history).vulnerabilities, sev))

\* history.reduce((acc, scan) => acc + scan.overallScore, 0)
RECURSIVE reduceScore(_, _)
reduceScore(history, acc) ==
    IF history = <<>> THEN acc
    ELSE reduceScore(Tail(history), acc + Head(history).overallScore)

\* the quotient rounded down
MathRound_Floor(a, b) == a \div b

\* Math.round(a / b) for a >= 0 and b > 0: halves are rounded up
MathRound(a, b) == (2 * a + b) \div (2 * b)

\* Math.round(history.reduce(...) / history.length)
avgScore(history) == MathRound(reduceScore(history, 0), Len(history))

\* new URL(scan.url).hostname
hostnameOf(text) == ParseURL(text).hostname

\* new Set(history.map(scan => new URL(scan.url).hostname)).size
uniqueSites(history) ==
    Cardinality({hostnameOf(history[i].url) : i \in 1..Len(history)})

\* the Quick Stats card of the scanner tab
QuickStats ==
    IF activeTab = "scanner" /\ Len(scanHistory) > 0
    THEN [shown |-> TRUE,
          total |-> Len(scanHistory),
          critical |-> reduceSeverity(scanHistory, "critical", 0),
          high |-> reduceSeverity(scanHistory, "high", 0),
          avg |-> avgScore(scanHistory)]
    ELSE [shown |-> FALSE]

\* the History Summary card of the history tab
HistorySummary ==
    IF activeTab = "history" /\ ~(Len(scanHistory) = 0)
    THEN [shown |-> TRUE,
          total |-> Len(scanHistory),
          critical |-> reduceSeverity(scanHistory, "critical", 0),
          avg |-> avgScore(scanHistory),
          sites |-> uniqueSites(scanHistory)]
    ELSE [shown |-> FALSE]

(***************************************************************************)
(* The summaries on their own: History holds up to MaxAggLen results of    *)
(* scans of several URLs, and the user looks at it.                        *)
(***************************************************************************)
Str_a_x == <<"h","t","t","p","s",":","/","/","a",".","c","o","/","x">>
Str_a_y == <<"h","t","t","p","s",":","/","/","a",".","c","o","/","y">>
Str_b   == <<"h","t","t","p",":","/","/","b",".","c","o">>

AggUrls == {Str_a_x, Str_a_y, Str_b}

\* the Histories of n scans, the newest first
AggHistories(n) ==
    { [i \in 1..n |-> NewScanResult(r[i], n + 1 - i, u[i])] :
        r \in [1..n -> 0..(RngMod - 1)], u \in [1..n -> AggUrls] }

AggInit ==
    /\ url = <<>>
    /\ isScanning = FALSE
    /\ progress = 0
    /\ currentResult = <<>>
    /\ \E n \in 0..MaxAggLen :
          /\ scanHistory \in AggHistories(n)
          /\ now = n + 1
    /\ activeTab = "scanner"
    /\ pc = "idle"
    /\ stepIndex = 0
    /\ scanUrl = <<>>
    /\ scanResult = <<>>
    /\ lastToast = NoToast
    /\ rng = 0

AggNext ==
    \/ \E tab \in {"scanner", "history"} : SetActiveTab(tab)
    \/ \E i \in 1..Len(scanHistory) : SelectScan(i)
    \/ ClearHistory

AggSpec == AggInit /\ [][AggNext]_vars

(***************************************************************************)
(* What ScanResults renders from one result.                               *)
(***************************************************************************)
criticalCount(result) == severityCount(result.vulnerabilities, "critical")
highCount(result) == severityCount(result.vulnerabilities, "high")
mediumCount(result) == severityCount(result.vulnerabilities, "medium")
lowCount(result) == severityCount(result.vulnerabilities, "low")

\* the Next Steps card with the second gate an else-if of the first
NextSteps_ElseIf(result) ==
    (IF criticalCount(result) > 0 THEN {"Immediate Action Required"}
     ELSE IF highCount(result) > 0 THEN {"High Priority"} ELSE {})
    \cup (IF result.overallScore >= 80 THEN {"Good Security Posture"} ELSE {})

\* the Next Steps card: the advisories that are rendered
NextSteps(result) ==
    (IF criticalCount(result) > 0 THEN {"Immediate Action Required"} ELSE {})
    \cup (IF highCount(result) > 0 THEN {"High Priority"} ELSE {})
    \cup (IF result.overallScore >= 80 THEN {"Good Security Posture"} ELSE {})

(***************************************************************************)
(* ScanResults on its own: the result prop is any ScanResult, of up to     *)
(* MaxViewVulns vulnerabilities of any severity and of any score.          *)
(***************************************************************************)
Severities == {"critical", "high", "medium", "low"}

ViewVulnerabilities ==
    { [id |-> "1", type |-> "SSL/TLS", severity |-> sev] : sev \in Severities }

ViewScores == {10, 55, 79, 80, 100}

ViewResults ==
    { [id |-> 1, url |-> Str_https_a, timestamp |-> 1,
       overallScore |-> sc, vulnerabilities |-> vs] :
        sc \in ViewScores,
        vs \in UNION { [1..n -> ViewVulnerabilities] : n \in 0..MaxViewVulns } }

ViewInit ==
    /\ url = <<>>
    /\ isScanning = FALSE
    /\ progress = 0
    /\ currentResult \in { <<r>> : r \in ViewResults }
    /\ scanHistory = <<>>
    /\ activeTab = "scanner"
    /\ pc = "idle"
    /\ stepIndex = 0
    /\ scanUrl = <<>>
    /\ scanResult = <<>>
    /\ lastToast = NoToast
    /\ now = 2
    /\ rng = 0

ViewNext ==
    \/ \E tab \in {"scanner", "history"} : SetActiveTab(tab)
    \/ \E text \in TypedUrls : SetUrl(text)

ViewSpec == ViewInit /\ [][ViewNext]_vars

(***************************************************************************)
(* Properties.                                                             *)
(***************************************************************************)
\* the text begins with the characters "http://" or "https://"
BeginsLiterally(text) ==
    \/ Len(text) >= 7 /\ SubSeq(text, 1, 7) = <<"h","t","t","p",":","/","/">>
    \/ Len(text) >= 8 /\ SubSeq(text, 1, 8) = <<"h","t","t","p","s",":","/","/">>

\* the step in which a scan completes, and the one in which it faults
ScanCompletes == pc = "resolved" /\ pc' = "idle"
ScanFaults == pc = "timer" /\ pc' = "idle"

\* C1: validateUrl returns true exactly for the texts that parse as an
\* absolute URL and begin literally with "http://" or "https://", and false
\* (never a fault) for every other text; a scan starts only for such a text.
C1_ValidateUrl ==
    /\ validateUrl(url) \in BOOLEAN
    /\ validateUrl(url) <=> (ParseURL(url).ok /\ BeginsLiterally(url))
    /\ isScanning => (ParseURL(url).ok /\ BeginsLiterally(url))
    /\ validateUrl(Str_example)
    /\ ~validateUrl(Str_ftp_x)
    /\ ~validateUrl(Str_not_url)

\* a parseable URL of another scheme was rejected
C1_Witness ==
    /\ url = Str_ftp_x
    /\ ParseURL(url).ok
    /\ lastToast.title = "Invalid URL"
    /\ ~isScanning

\* C2: the History list never holds more than 10 entries.
C2_HistoryAtMostTen == Len(scanHistory) <= 10

\* an eleventh scan has completed on a full History
C2_Witness == Len(scanHistory) = 10 /\ now = 12

\* C3: a completion on a History of 10 entries gives 10 entries, the new
\* result first, the 9 newest previous entries after it in their order and
\* the oldest absent; on a shorter History the new result is put in front
\* of all previous entries.
C3_InsertEvictsOldest ==
    [][ScanCompletes =>
          IF Len(scanHistory) = 10
          THEN /\ Len(scanHistory') = 10
               /\ scanHistory'[1] = scanResult[1]
               /\ \A i \in 1..9 : scanHistory'[i + 1] = scanHistory[i]
               /\ \A i \in 1..10 : scanHistory'[i] # scanHistory[10]
          ELSE /\ Len(scanHistory) < 10
               /\ scanHistory' = <<scanResult[1]>> \o scanHistory]_vars

\* the eleventh result is first and the first result is gone
C3_Witness ==
    /\ Len(scanHistory) = 10
    /\ scanHistory[1].id = 11
    /\ scanHistory[10].id = 2

\* C4: when a scan completes, exactly one entry is new in History, it is
\* the first entry, it is the result of the scan of the validated URL, and
\* the current result is that entry.
C4_CompletionPublishesOnce ==
    [][ScanCompletes =>
          /\ Len(scanHistory') >= 1
          /\ Range(scanHistory') \ Range(scanHistory) = {scanHistory'[1]}
          /\ \A i \in 2..Len(scanHistory') : scanHistory'[i] = scanHistory[i - 1]
          /\ scanHistory'[1] = scanResult[1]
          /\ scanHistory'[1].url = scanUrl
          /\ validateUrl(scanHistory'[1].url)
          /\ currentResult' = <<scanHistory'[1]>>]_vars

\* a scan completed after History was cleared: its entry is alone in front
C4_Witness ==
    /\ lastToast.title = "Scan Complete"
    /\ Len(scanHistory) = 1
    /\ scanHistory[1].id = 3
    /\ currentResult = <<scanHistory[1]>>

\* C5: the "Scan Complete" notification is destructive exactly when the
\* completed result holds a critical vulnerability, and default otherwise.
C5_CompleteVariant ==
    [][ScanCompletes =>
          /\ lastToast'.title = "Scan Complete"
          /\ lastToast'.variant \in {"destructive", "default"}
          /\ lastToast'.variant = "destructive" <=>
                \E i \in 1..Len(currentResult'[1].vulnerabilities) :
                    currentResult'[1].vulnerabilities[i].severity = "critical"]_vars

\* a completion with a critical vulnerability, notified as destructive
C5_Witness ==
    /\ lastToast.title = "Scan Complete"
    /\ lastToast.variant = "destructive"
    /\ Len(currentResult) = 1
    /\ Len(currentResult[1].vulnerabilities) = 3
    /\ currentResult[1].vulnerabilities[3].severity = "critical"

\* the result r holds between 1 and 4 vulnerabilities, the first ones of
\* the catalog in its order
IsCatalogPrefix(r) ==
    /\ Len(r.vulnerabilities) \in 1..4
    /\ Len(r.vulnerabilities) <= Len(MOCK_VULNERABILITIES)
    /\ \A i \in 1..Len(r.vulnerabilities) : r.vulnerabilities[i] = MOCK_VULNERABILITIES[i]

\* C6: every current result and every History entry holds between 1 and 4
\* vulnerabilities, which are a prefix of the catalog in catalog order.
C6_VulnerabilitiesArePrefix ==
    /\ \A i \in 1..Len(currentResult) : IsCatalogPrefix(currentResult[i])
    /\ \A i \in 1..Len(scanHistory) : IsCatalogPrefix(scanHistory[i])
    /\ \A i \in 1..Len(scanResult) : IsCatalogPrefix(scanResult[i])

\* results of one, two and three vulnerabilities are in History together
C6_Witness ==
    /\ Len(scanHistory) >= 3
    /\ {Len(scanHistory[i].vulnerabilities) : i \in 1..Len(scanHistory)} = {1, 2, 3}
    /\ Len(currentResult) = 1

\* C7: the score of a scan is max(10, 100 - 15 * N) for the drawn count N:
\* 85, 70, 55 and 40 for N = 1, 2, 3 and 4.
C7_ScoreOfDrawnCount ==
    [][(pc = "timer" /\ pc' = "resolved") =>
          /\ numVulnsOf(rng) \in 1..4
          /\ scanResult'[1].overallScore = Max(10, 100 - 15 * numVulnsOf(rng))
          /\ scanResult'[1].overallScore =
                CASE numVulnsOf(rng) = 1 -> 85
                  [] numVulnsOf(rng) = 2 -> 70
                  [] numVulnsOf(rng) = 3 -> 55
                  [] numVulnsOf(rng) = 4 -> 40]_vars

\* C8: a click on Start Scan with a URL that fails validation emits the
\* destructive "Invalid URL" notification, starts no scan and leaves the
\* in-progress flag, the progress, the current result and History as they
\* were.
C8_InvalidUrlRejected ==
    [][(CanClickScan /\ ~validateUrl(url) /\ url' = url /\ activeTab' = activeTab) =>
          /\ lastToast'.title = "Invalid URL"
          /\ lastToast'.variant = "destructive"
          /\ pc' = "idle"
          /\ UNCHANGED <<isScanning, progress, currentResult, scanHistory,
                         stepIndex, scanResult, now>>]_vars

\* "not a url" was rejected after a scan had left a result and a progress
C8_Witness ==
    /\ url = Str_not_url
    /\ lastToast.title = "Invalid URL"
    /\ progress = 600
    /\ Len(currentResult) = 1
    /\ Len(scanHistory) >= 1
    /\ ~isScanning

\* C9: a fault in the step sequence is caught: the destructive "Scan
\* Failed" notification is emitted, the in-progress flag is cleared, and
\* History and the current result are as they were before the fault; no
\* result of a scan that has not completed is ever in either of them.
C9_FaultPublishesNothing ==
    /\ [][ScanFaults =>
             /\ lastToast'.title = "Scan Failed"
             /\ lastToast'.variant = "destructive"
             /\ ~isScanning'
             /\ scanHistory' = scanHistory
             /\ currentResult' = currentResult
             /\ scanResult' = <<>>]_vars
    /\ [](/\ \A i \in 1..Len(scanHistory) : scanHistory[i].id < now
          /\ \A i \in 1..Len(currentResult) : currentResult[i].id < now)

\* a scan faulted after its third step, History holding an earlier result
C9_Witness ==
    /\ lastToast.title = "Scan Failed"
    /\ ~isScanning
    /\ progress = 300
    /\ Len(scanHistory) >= 1
    /\ currentResult = <<>>

\* C10: with the timers firing, a scan that is in progress ends: the
\* in-progress flag is eventually cleared.
C10_ScanEnds == isScanning ~> ~isScanning

\* a scan ran through its six steps and ended
C10_Witness ==
    /\ ~isScanning
    /\ pc = "idle"
    /\ progress = 600
    /\ lastToast.title = "Scan Complete"
    /\ now = 2

\* the step in which handleScan starts a scan: the flag is set, the progress
\* and the loop are at their beginning, and the step is not a stuttering one
ScanStarts ==
    /\ isScanning' /\ pc' = "timer" /\ stepIndex' = 0 /\ progress' = 0
    /\ currentResult' = <<>>
    /\ <<isScanning, pc, stepIndex, progress, currentResult>>
         # <<isScanning', pc', stepIndex', progress', currentResult'>>

\* C11: scans are serialized: a scan starts only when none is in flight, and
\* while the in-progress flag is set neither the Start Scan button nor the
\* URL input accepts an event.
C11_ScansSerialized ==
    /\ [][ScanStarts => (~isScanning /\ pc = "idle")]_vars
    /\ [](isScanning =>
            /\ ~CanClickScan
            /\ ~ENABLED HandleScanStart
            /\ ~ENABLED HandleScanInvalid
            /\ \A text \in TypedUrls : ~ENABLED SetUrl(text))
    /\ []((pc # "idle") = isScanning)

\* a scan is past its third step on the scanner tab, a valid URL typed
C11_Witness ==
    /\ isScanning
    /\ activeTab = "scanner"
    /\ validateUrl(url)
    /\ pc = "timer"
    /\ stepIndex = 3
    /\ Len(scanHistory) >= 1

\* C12: a clear of History leaves it empty whatever it held, also while a
\* scan is in flight: a step on the history tab that changes History and is
\* not a completion empties it, and the clear is possible whenever History
\* is shown non-empty.
C12_ClearEmptiesHistory ==
    /\ [][(activeTab = "history" /\ scanHistory' # scanHistory /\ ~ScanCompletes)
            => scanHistory' = <<>>]_vars
    /\ []((activeTab = "history" /\ Len(scanHistory) > 0 /\ EventLoopFree)
            => ENABLED (ClearHistory /\ scanHistory' = <<>>))

\* History was cleared during the scan in flight: a result was selected
\* from it after the scan had reset the current result
C12_Witness ==
    /\ isScanning
    /\ scanHistory = <<>>
    /\ Len(currentResult) = 1
    /\ now = 4

\* the host part of an http(s) URL as it is written: the characters between
\* "://" and the next "/"
WrittenHost(text) ==
    LET afterScheme == From(text, FirstOf(text, {":"}) + 3)
    IN SubSeq(afterScheme, 1, FirstOf(afterScheme, {"/"}) - 1)

\* the scores of History laid out as one mark per point
ScoreMarks == {<<i, k>> \in (1..Len(scanHistory)) \X (1..100) : k <= scanHistory[i].overallScore}

\* the vulnerabilities of severity sev in History
SeverityMarks(sev) ==
    {<<i, j>> \in (1..Len(scanHistory)) \X (1..Len(MOCK_VULNERABILITIES)) :
        /\ j <= Len(scanHistory[i].vulnerabilities)
        /\ scanHistory[i].vulnerabilities[j].severity = sev}

\* q is the quotient a / b rounded to the nearest integer, halves up
IsRounded(q, a, b) == 2 * q * b <= 2 * a + b /\ 2 * a + b < 2 * (q + 1) * b

\* C13: on a non-empty History the summaries show the number of entries,
\* the number of critical and of high vulnerabilities over all entries, the
\* rounded mean of the scores, and the number of distinct hostnames of the
\* stored URLs (two paths of one host count once).
C13_SummariesAreReductions ==
    Len(scanHistory) > 0 =>
        /\ activeTab = "scanner" =>
              /\ QuickStats.shown
              /\ QuickStats.total = Len(scanHistory)
              /\ QuickStats.critical = Cardinality(SeverityMarks("critical"))
              /\ QuickStats.high = Cardinality(SeverityMarks("high"))
              /\ IsRounded(QuickStats.avg, Cardinality(ScoreMarks), Len(scanHistory))
        /\ activeTab = "history" =>
              /\ HistorySummary.shown
              /\ HistorySummary.total = Len(scanHistory)
              /\ HistorySummary.critical = Cardinality(SeverityMarks("critical"))
              /\ IsRounded(HistorySummary.avg, Cardinality(ScoreMarks), Len(scanHistory))
              /\ HistorySummary.sites =
                    Cardinality({WrittenHost(scanHistory[i].url) : i \in 1..Len(scanHistory)})

\* two scans of two paths of a.co, scores 85 and 70: one site, mean 78
C13_Witness ==
    /\ activeTab = "history"
    /\ Len(scanHistory) = 2
    /\ scanHistory[1].url = Str_a_x
    /\ scanHistory[2].url = Str_a_y
    /\ scanHistory[1].overallScore = 85
    /\ scanHistory[2].overallScore = 70
    /\ HistorySummary.sites = 1
    /\ HistorySummary.avg = 78

\* C14: the three advisories are gated one by one: "Immediate Action
\* Required" is rendered exactly when a critical vulnerability is present,
\* "High Priority" exactly when a high one is present (with or without a
\* critical one), "Good Security Posture" exactly when the score is at
\* least 80; each of the eight combinations is rendered for some result.
C14_AdvisoriesIndependent ==
    /\ \A i \in 1..Len(currentResult) :
          LET r == currentResult[i]
              hasSeverity(sev) ==
                  \E j \in 1..Len(r.vulnerabilities) : r.vulnerabilities[j].severity = sev
          IN /\ "Immediate Action Required" \in NextSteps(r) <=> hasSeverity("critical")
             /\ "High Priority" \in NextSteps(r) <=> hasSeverity("high")
             /\ "Good Security Posture" \in NextSteps(r) <=> r.overallScore >= 80
    /\ \A shown \in SUBSET {"Immediate Action Required", "High Priority",
                            "Good Security Posture"} :
          \E r \in ViewResults : NextSteps(r) = shown

\* a result with a critical and a high vulnerability and a score of 80:
\* the three advisories together
C14_Witness ==
    /\ Len(currentResult) = 1
    /\ criticalCount(currentResult[1]) = 1
    /\ highCount(currentResult[1]) = 1
    /\ currentResult[1].overallScore = 80
    /\ Cardinality(NextSteps(currentResult[1])) = 3
    /\ activeTab = "scanner"

\* C15 as stated: while a scan is in flight only its completion changes
\* History.
C15_HistoryFrozenDuringScan ==
    [][(isScanning /\ scanHistory' # scanHistory) => ScanCompletes]_vars

\* C15, amended: while a scan is in flight History changes only by the
\* append-and-trim of the completion or by a clear on the history tab, which
\* empties it; the steps, a fault, a selection and a change of tab leave it
\* as it is.
C15_OnlyCompletionOrClear ==
    [][(isScanning /\ scanHistory' # scanHistory) =>
          \/ /\ ScanCompletes
             /\ scanHistory' = <<scanResult[1]>>
                                 \o SubSeq(scanHistory, 1, Min(9, Len(scanHistory)))
          \/ /\ pc' = pc
             /\ activeTab = "history"
             /\ scanHistory' = <<>>
             /\ UNCHANGED <<isScanning, progress, currentResult, stepIndex, scanResult>>]_vars

\* a scan is past its second step and History, which held two results when
\* one of them was selected during this scan, is empty
C15_Witness ==
    /\ isScanning
    /\ pc = "timer"
    /\ stepIndex = 2
    /\ now = 3
    /\ scanHistory = <<>>
    /\ Len(currentResult) = 1
    /\ currentResult[1].id = 1

\* the six step labels in the order of the claim
C16_Labels ==
    << "Checking SSL certificate...", "Analyzing security headers...",
       "Testing for XSS vulnerabilities...", "Scanning for SQL injection...",
       "Checking open ports...", "Generating report..." >>

\* C16: a scan resets the progress to 0 when it starts; its k-th step sets
\* the progress to k/6 of 100 (100 * k in sixths of a percent) and emits
\* the k-th label, for k = 1..6 in this order; the progress never decreases
\* during a scan and stays within 0..100; the result exists only after the
\* sixth step has set the progress to 100.
C16_StepsInOrder ==
    /\ [][(~isScanning /\ isScanning') => (progress' = 0 /\ stepIndex' = 0)]_vars
    /\ [][(pc = "timer" /\ pc' # "idle" /\ stepIndex' # stepIndex) =>
             /\ stepIndex' = stepIndex + 1
             /\ stepIndex' \in 1..6
             /\ progress' = 100 * stepIndex'
             /\ lastToast'.title = "Scanning..."
             /\ lastToast'.description = C16_Labels[stepIndex']
             /\ (scanResult' # <<>>) = (stepIndex' = 6)]_vars
    /\ [][(isScanning /\ isScanning') => progress' >= progress]_vars
    /\ [](progress >= 0 /\ progress <= 600)
    /\ [](pc = "timer" => (stepIndex \in 0..5 /\ progress = 100 * stepIndex
                            /\ scanResult = <<>>))
    /\ [](scanResult # <<>> => (progress = 600 /\ stepIndex = 6 /\ pc = "resolved"))
    /\ [][ScanCompletes => (progress = 600 /\ progress' = 600)]_vars

\* the fourth step has just run
C16_Witness ==
    /\ pc = "timer"
    /\ stepIndex = 4
    /\ progress = 400
    /\ lastToast.description = "Scanning for SQL injection..."

\* C17: the summaries are rendered only for a non-empty History, so the
\* mean is never taken over zero entries, and every URL stored in History
\* (and the URL of the scan in flight) passed validation, so it parses and
\* has a hostname.
C17_AggregationWellDefined ==
    /\ QuickStats.shown => Len(scanHistory) > 0
    /\ HistorySummary.shown => Len(scanHistory) > 0
    /\ Len(scanHistory) > 0 => (QuickStats.shown \/ HistorySummary.shown)
    /\ \A i \in 1..Len(scanHistory) :
          /\ ParseURL(scanHistory[i].url).ok
          /\ BeginsLiterally(scanHistory[i].url)
          /\ hostnameOf(scanHistory[i].url) # <<>>
    /\ \A i \in 1..Len(currentResult) : ParseURL(currentResult[i].url).ok
    /\ isScanning => (ParseURL(scanUrl).ok /\ BeginsLiterally(scanUrl))

\* "ftp://x.com" was rejected while History holds results and Quick Stats
\* is rendered
C17_Witness ==
    /\ url = Str_ftp_x
    /\ lastToast.title = "Invalid URL"
    /\ Len(scanHistory) >= 2
    /\ QuickStats.shown
    /\ QuickStats.total = Len(scanHistory)

====
